---- MODULE Spec2Model ----
(***************************************************************************)
(* Model of sdks/python/src/logwell/transport.py: HttpTransport.send (the  *)
(* retry loop), HttpTransport._do_request (one HTTP exchange and its       *)
(* classification), _delay (the backoff schedule) and the lazily created   *)
(* client with close().                                                    *)
(*                                                                         *)
(* Durations are integer microseconds.  asyncio runs one task at a time    *)
(* and switches tasks only at an await that suspends, so every action is   *)
(* the code between two suspension points of one coroutine.                *)
(***************************************************************************)
EXTENDS Integers, Sequences, FiniteSets, TLC

(* ------------------------------ bounds --------------------------------- *)
MaxRetries == 3
NumCalls == 2
NumCloses == 2
ConcMaxRetries == 2
ConcCloses == 1
RandSteps == 4
MaxAttempt == 12
MaxStatus == 600
MaxBatch == 2

(* ------------------------- program constants --------------------------- *)
DefaultBaseDelay == 100000
MaxDelay == 10000000
JitterNum == 3
JitterDen == 10

None == 0

Calls == 1..NumCalls
Closers == 1..NumCloses
ClientIds == 1..(NumCloses + 1)

VARIABLES
  max_retries,   \* TransportConfig.max_retries
  client,        \* HttpTransport._client: None or the id of an AsyncClient
  clientOpen,    \* per AsyncClient ever created: TRUE until aclose() starts
  created,       \* number of AsyncClient objects created so far
  pc,            \* per send call: "idle", "post", "sleep", "done"
  attempt,       \* per send call: the loop variable of send
  last_error,    \* per send call: the local last_error
  reqClient,     \* per send call: the client the pending post was issued on
  requests,      \* per send call: invocations of _do_request so far
  sleeps,        \* per send call: invocations of _delay so far
  retryFails,    \* per send call: attempts that raised a retryable LogwellError
  lastRaw,       \* per send call: what client.post gave the latest attempt
  lastDelay,     \* per send call: the duration of the latest _delay
  posts,         \* per send call: calls of client.post so far
  lastReq,       \* per send call: the request of the latest client.post
  logs,          \* per send call: the batch the caller passed
  lateStart,     \* the send calls started after some close() had returned
  config,        \* TransportConfig: endpoint, api_key, timeout
  _ingest_url,   \* HttpTransport._ingest_url
  outcomes,      \* per send call: what the call returned or raised, in order
  closePc,       \* per close call: "idle", "aclose", "done"
  fpc,           \* function harness: "none", "ready", "applied"
  arg,           \* function harness: the inputs
  res            \* function harness: the result

sendVars == <<pc, attempt, last_error, reqClient, requests, sleeps, retryFails,
              lastRaw, lastDelay, outcomes, posts, lastReq, logs, lateStart>>
clientVars == <<client, clientOpen, created, closePc>>
fnVars == <<fpc, arg, res>>
vars == <<max_retries, config, _ingest_url, clientVars, sendVars, fnVars>>

(* ------------------------------ JSON ----------------------------------- *)
\* A JSON value of a field: a string, null, or the field is absent.
JStr(s) == [t |-> "str", s |-> s]
JNull == [t |-> "null", s |-> "None"]
Absent == [t |-> "absent", s |-> ""]

\* A response body: text that is not JSON, a JSON array, or a JSON object
\* with optional fields message, error and the two counts of IngestResponse
\* (-1: the count is absent).
Body(parse, m, e, a, r) ==
  [parse |-> parse, message |-> m, error |-> e, accepted |-> a, rejected |-> r]
InvalidBody == Body("invalid", Absent, Absent, -1, -1)
ArrayBody == Body("array", Absent, Absent, -1, -1)
ObjBody(m, e) == Body("object", m, e, -1, -1)
IngestBody(a, r) == Body("object", Absent, Absent, a, r)

MessageValues == {Absent, JNull, JStr(""), JStr("slow down")}
ErrorValues == {Absent, JNull, JStr(""), JStr("bad key")}
Bodies ==
  {InvalidBody, ArrayBody, IngestBody(10, 0)}
    \cup {ObjBody(m, e) : m \in MessageValues, e \in ErrorValues}

\* dict.get(key): None when the key is absent.
DictGet(body, key) == IF body[key] = Absent THEN JNull ELSE body[key]

\* Python truthiness of a field value: None and "" are falsy.
Truthy(v) == v.t = "str" /\ v.s # ""

(* --------------------------- LogwellError ------------------------------ *)
LogwellError(message, code, status, retryable) ==
  [message |-> message, code |-> code, status_code |-> status,
   retryable |-> retryable]

\* The placeholder send starts from.
Placeholder == LogwellError("Max retries exceeded", "NETWORK_ERROR", None, TRUE)

(* ------------------------ _try_parse_error ----------------------------- *)
\* the error field is looked up before the message field
_try_parse_error_ErrorFirst(status, body) ==
  IF body.parse # "object" THEN "HTTP " \o ToString(status)
  ELSE IF body.error.t = "str" /\ body.error.s # "" THEN body.error.s
  ELSE IF body.message.t = "str" /\ body.message.s # "" THEN body.message.s
  ELSE "Unknown error"

\* response.json() raises on text that is not JSON; .get raises on a JSON
\* value that is not an object; both are caught by `except Exception`.
_try_parse_error(status, body) ==
  IF body.parse # "object" THEN "HTTP " \o ToString(status)
  ELSE IF Truthy(DictGet(body, "message")) THEN DictGet(body, "message").s
  ELSE IF Truthy(DictGet(body, "error")) THEN DictGet(body, "error").s
  ELSE "Unknown error"

(* --------------------------- _create_error ----------------------------- *)
\* status 500 itself is left to the catch-all
IsServerFailureAbove(status) == status > 500

\* `elif status >= 500`
IsServerFailure(status) == status >= 500

_create_error(status, message) ==
  IF status = 401 THEN
    LogwellError("Unauthorized: " \o message, "UNAUTHORIZED", status, FALSE)
  ELSE IF status = 400 THEN
    LogwellError("Validation error: " \o message, "VALIDATION_ERROR", status, FALSE)
  ELSE IF status = 429 THEN
    LogwellError("Rate limited: " \o message, "RATE_LIMITED", status, TRUE)
  ELSE IF IsServerFailure(status) THEN
    LogwellError("Server error: " \o message, "SERVER_ERROR", status, TRUE)
  ELSE
    LogwellError("HTTP error " \o ToString(status) \o ": " \o message,
                 "SERVER_ERROR", status, FALSE)

(* ----------------------------- _do_request ----------------------------- *)
\* What `await client.post(...)` gives: a response or a raised exception.
RawResponse(status, body) ==
  [t |-> "response", status |-> status, body |-> body, exc |-> "", detail |-> ""]
RawException(exc, detail) ==
  [t |-> "exception", status |-> None, body |-> InvalidBody, exc |-> exc,
   detail |-> detail]

\* What one invocation of _do_request (or send) ends with.
Returned(data) ==
  [kind |-> "returned", data |-> data, error |-> Placeholder, exc |-> ""]
Raised(error) ==
  [kind |-> "LogwellError", data |-> InvalidBody, error |-> error, exc |-> ""]
Propagated(exc) ==
  [kind |-> "exception", data |-> InvalidBody, error |-> Placeholder, exc |-> exc]

\* httpx.Response.is_success
is_success(status) == 200 <= status /\ status <= 299

\* `except httpx.TimeoutException`
IsTimeout(exc) == exc = "TimeoutException"

\* every exception raised at the await is taken for a request error
IsRequestErrorAny(exc) == TRUE

\* `except httpx.RequestError` (TimeoutException is one of its subclasses)
IsRequestError(exc) == exc \in {"TimeoutException", "RequestError"}

\* a transport failure that is not retried
NetworkErrorFinal(message) == LogwellError(message, "NETWORK_ERROR", None, FALSE)

\* the LogwellError raised by both except clauses
NetworkError(message) == LogwellError(message, "NETWORK_ERROR", None, TRUE)

_do_request(raw) ==
  IF raw.t = "exception" THEN
    IF IsTimeout(raw.exc) THEN
      Raised(NetworkError("Request timeout: " \o raw.detail))
    ELSE IF IsRequestError(raw.exc) THEN
      Raised(NetworkError("Network error: " \o raw.detail))
    ELSE Propagated(raw.exc)
  ELSE IF ~is_success(raw.status) THEN
    Raised(_create_error(raw.status, _try_parse_error(raw.status, raw.body)))
  ELSE IF raw.body.parse = "invalid" THEN Propagated("JSONDecodeError")
  ELSE Returned(raw.body)

(* -------------------------------- _delay ------------------------------- *)
Min(a, b) == IF a <= b THEN a ELSE b

\* the cap of 10 s is left out
delay_secs_Uncapped(att, base_delay) == base_delay * (2 ^ att)

\* delay_secs = min(base_delay * (2**attempt), 10.0)
delay_secs(att, base_delay) == Min(base_delay * (2 ^ att), MaxDelay)

\* jitter = random.random() * delay_secs * 0.3, random.random() = n / RandSteps
jitter(capped, n) == (n * capped * JitterNum) \div (RandSteps * JitterDen)

\* the attempt index is taken as 1-based
_delay_OneBased(att, base_delay, n) ==
  [capped |-> delay_secs(att + 1, base_delay),
   jitter |-> jitter(delay_secs(att + 1, base_delay), n),
   total |-> delay_secs(att + 1, base_delay)
               + jitter(delay_secs(att + 1, base_delay), n)]

_delay(att, base_delay, n) ==
  [capped |-> delay_secs(att, base_delay),
   jitter |-> jitter(delay_secs(att, base_delay), n),
   total |-> delay_secs(att, base_delay) + jitter(delay_secs(att, base_delay), n)]

NoDelay == [capped |-> 0, jitter |-> 0, total |-> 0]

(* ------------------------------ send ----------------------------------- *)
\* What client.post can give an attempt of send in the transport model.
Detail == "connect failed"
SendRaws ==
  {RawException("TimeoutException", Detail), RawException("RequestError", Detail),
   RawResponse(200, IngestBody(10, 0)), RawResponse(200, InvalidBody),
   RawResponse(400, ObjBody(JStr("slow down"), Absent)),
   RawResponse(401, InvalidBody),
   RawResponse(404, ObjBody(Absent, Absent)),
   RawResponse(429, ObjBody(Absent, JStr("bad key"))),
   RawResponse(503, ObjBody(Absent, Absent))}

Cancelled == RawException("CancelledError", "")
NoRaw == RawException("", "")

\* the range is one index short: range(self._config.max_retries)
InRangeShort(att) == att < max_retries

\* range(self._config.max_retries + 1) holds the index att
InRange(att) == att < max_retries + 1

\* the decision is taken from the kind of the error, not from its flag
ShouldRaiseByCode(error) ==
  error.code \notin {"NETWORK_ERROR", "RATE_LIMITED", "SERVER_ERROR"}

\* every failure is retried
ShouldRaiseNever(error) == FALSE

\* `if not error.retryable: raise`
ShouldRaise(error) == ~error.retryable

\* the backoff is dropped: a retry follows the failure at once
ShouldDelayNever(att) == FALSE

\* the delay is skipped one attempt too early
ShouldDelayEarly(att) == att + 1 < max_retries

\* `if attempt < self._config.max_retries: await _delay(attempt)`
ShouldDelay(att) == att < max_retries

\* the first error is kept instead of the latest
RecordErrorKeepFirst(c, error) ==
  IF last_error[c] = Placeholder THEN [last_error EXCEPT ![c] = error]
  ELSE last_error

\* `last_error = error`
RecordError(c, error) == [last_error EXCEPT ![c] = error]

\* the loop never moves on to the next index
AdvanceAttemptStuck(c) == attempt

\* one attempt counter shared by all calls of the transport
AdvanceAttemptShared(c) == [k \in Calls |-> attempt[c] + 1]

\* the loop variable of call c moves to the next index of the range
AdvanceAttempt(c) == [attempt EXCEPT ![c] = @ + 1]

\* send ends: the call returns or raises o
Finish(c, o) ==
  /\ pc' = [pc EXCEPT ![c] = "done"]
  /\ outcomes' = [outcomes EXCEPT ![c] = Append(@, o)]

\* a client is created on every call, whatever the transport holds
_get_client_Always ==
  /\ created' = created + 1
  /\ client' = created + 1
  /\ clientOpen' = [clientOpen EXCEPT ![created + 1] = TRUE]

\* a client that was closed is handed out again instead of a new one
_get_client_Stale ==
  IF client = None /\ created = 0
    THEN /\ created' = created + 1
         /\ client' = created + 1
         /\ clientOpen' = [clientOpen EXCEPT ![created + 1] = TRUE]
    ELSE /\ client' = created
         /\ UNCHANGED <<created, clientOpen>>

\* _get_client, lines 88-92
_get_client ==
  IF client = None
    THEN /\ created' = created + 1
         /\ client' = created + 1
         /\ clientOpen' = [clientOpen EXCEPT ![created + 1] = TRUE]
    ELSE UNCHANGED <<created, client, clientOpen>>

\* the batch is split: a request carries its first entry only
RequestForFirstEntry(c) ==
  [url |-> _ingest_url, auth |-> "Bearer " \o config.api_key,
   json |-> IF logs'[c] = <<>> THEN <<>> ELSE <<Head(logs'[c])>>]

\* the POST of lines 150-157: url, Authorization header, json body
RequestFor(c) ==
  [url |-> _ingest_url, auth |-> "Bearer " \o config.api_key, json |-> logs'[c]]
NoReq == [url |-> "", auth |-> "", json |-> <<>>]

\* one call of client.post per invocation of _do_request
PostsPerRequest == 1

\* _do_request up to its suspension in client.post, lines 147-157.  A post
\* on a client whose aclose() has started raises RuntimeError at once.
BeginRequest(c) ==
  /\ requests' = [requests EXCEPT ![c] = @ + 1]
  /\ _get_client
  /\ reqClient' = [reqClient EXCEPT ![c] = client']
  /\ posts' = [posts EXCEPT ![c] = @ + PostsPerRequest]
  /\ lastReq' = [lastReq EXCEPT ![c] = RequestFor(c)]
  /\ IF clientOpen'[client']
       THEN /\ pc' = [pc EXCEPT ![c] = "post"]
            /\ UNCHANGED outcomes
       ELSE Finish(c, Propagated("RuntimeError"))

\* the for statement takes the next index or the loop ends and line 133
\* raises last_error
LoopNext(c, err) ==
  IF InRange(attempt[c] + 1)
    THEN /\ attempt' = AdvanceAttempt(c)
         /\ BeginRequest(c)
    ELSE /\ Finish(c, Raised(err))
         /\ UNCHANGED <<attempt, client, clientOpen, created, reqClient, requests,
                      posts, lastReq>>

\* send is called: lines 112-121 up to the suspension in client.post
SendStartIn(c, batches) ==
  /\ fpc = "none"
  /\ pc[c] = "idle"
  /\ \E batch \in batches : logs' = [logs EXCEPT ![c] = batch]
  /\ lateStart' = IF \E k \in Closers : closePc[k] = "done"
                    THEN lateStart \cup {c} ELSE lateStart
  /\ last_error' = RecordError(c, Placeholder)
  /\ IF InRange(0)
       THEN BeginRequest(c)
       ELSE /\ Finish(c, Raised(Placeholder))
            /\ UNCHANGED <<client, clientOpen, created, reqClient, requests,
                           posts, lastReq>>
  /\ UNCHANGED <<max_retries, config, _ingest_url, closePc, attempt, sleeps,
                 retryFails, lastRaw, lastDelay, fnVars>>

\* a batch: an ordered sequence of log entries, possibly empty
Entries == {"e1", "e2"}
Batches == UNION {[1..n -> Entries] : n \in 0..MaxBatch}

SendStart(c) == SendStartIn(c, Batches)

\* every failure of an attempt is caught, not only LogwellError
SendCatchesAll(o) == o.kind # "returned"

\* `except LogwellError as error`
SendCatches(o) == o.kind = "LogwellError"

\* client.post of call c ends with raw: the rest of _do_request and the
\* except clause of send, up to the next suspension or the end of the call
Resume(c, raw, n) ==
  LET o == _do_request(raw) IN
  /\ lastRaw' = [lastRaw EXCEPT ![c] = raw]
  /\ IF ~SendCatches(o)
       THEN /\ Finish(c, o)
            /\ UNCHANGED <<last_error, sleeps, retryFails, lastDelay, attempt,
                           client, clientOpen, created, reqClient, requests,
                           posts, lastReq>>
       ELSE /\ last_error' = RecordError(c, o.error)
            /\ IF ShouldRaise(o.error)
                 THEN /\ Finish(c, Raised(o.error))
                      /\ UNCHANGED <<sleeps, retryFails, lastDelay, attempt,
                                     client, clientOpen, created, reqClient,
                                     requests, posts, lastReq>>
                 ELSE /\ retryFails' = [retryFails EXCEPT ![c] = @ + 1]
                      /\ IF ShouldDelay(attempt[c])
                           THEN /\ pc' = [pc EXCEPT ![c] = "sleep"]
                                /\ sleeps' = [sleeps EXCEPT ![c] = @ + 1]
                                /\ lastDelay' = [lastDelay EXCEPT ![c] =
                                      _delay(attempt[c], DefaultBaseDelay, n)]
                                /\ UNCHANGED <<outcomes, attempt, client,
                                               clientOpen, created, reqClient,
                                               requests, posts, lastReq>>
                           ELSE /\ LoopNext(c, last_error'[c])
                                /\ UNCHANGED <<sleeps, lastDelay>>

PostCompletesIn(c, raws, ns) ==
  /\ fpc = "none"
  /\ pc[c] = "post"
  /\ UNCHANGED <<logs, lateStart>>
  /\ \E raw \in raws, n \in ns : Resume(c, raw, n)
  /\ UNCHANGED <<max_retries, config, _ingest_url, closePc, fnVars>>

PostCompletes(c) == PostCompletesIn(c, SendRaws, 0..(RandSteps - 1))

\* asyncio.sleep of _delay ends: the loop goes on
SleepCompletes(c) ==
  /\ fpc = "none"
  /\ pc[c] = "sleep"
  /\ UNCHANGED <<logs, lateStart>>
  /\ LoopNext(c, last_error[c])
  /\ UNCHANGED <<max_retries, config, _ingest_url, closePc, last_error, sleeps,
                 retryFails, lastRaw, lastDelay, fnVars>>

\* the caller cancels the task of call c while it is suspended:
\* CancelledError is raised at the await of client.post or of asyncio.sleep
Cancel(c) ==
  /\ fpc = "none"
  /\ UNCHANGED <<logs, lateStart>>
  /\ \/ /\ pc[c] = "post"
        /\ Resume(c, Cancelled, 0)
     \/ /\ pc[c] = "sleep"
        /\ Finish(c, Propagated(Cancelled.exc))
        /\ UNCHANGED <<last_error, sleeps, retryFails, lastRaw, lastDelay,
                       attempt, client, clientOpen, created, reqClient, requests,
                       posts, lastReq>>
  /\ UNCHANGED <<max_retries, config, _ingest_url, closePc, fnVars>>

(* ------------------------------ close ---------------------------------- *)
\* close is called: line 96 and the start of aclose(), which marks the
\* client closed before it suspends
CloseStart(k) ==
  /\ fpc = "none"
  /\ closePc[k] = "idle"
  /\ IF client = None
       THEN /\ closePc' = [closePc EXCEPT ![k] = "done"]
            /\ UNCHANGED clientOpen
       ELSE /\ closePc' = [closePc EXCEPT ![k] = "aclose"]
            /\ clientOpen' = [clientOpen EXCEPT ![client] = FALSE]
  /\ UNCHANGED <<max_retries, config, _ingest_url, client, created, sendVars, fnVars>>

\* aclose() ends: line 98
CloseFinish(k) ==
  /\ fpc = "none"
  /\ closePc[k] = "aclose"
  /\ client' = None
  /\ closePc' = [closePc EXCEPT ![k] = "done"]
  /\ UNCHANGED <<max_retries, config, _ingest_url, clientOpen, created, sendVars, fnVars>>

(* --------------------------- specification ----------------------------- *)
\* The state after HttpTransport.__init__, lines 80-86, with no call made.
Constructed(retries) ==
  /\ max_retries \in retries
  /\ client = None
  /\ clientOpen = [i \in ClientIds |-> FALSE]
  /\ created = 0
  /\ pc = [c \in Calls |-> "idle"]
  /\ attempt = [c \in Calls |-> 0]
  /\ last_error = [c \in Calls |-> Placeholder]
  /\ reqClient = [c \in Calls |-> None]
  /\ requests = [c \in Calls |-> 0]
  /\ sleeps = [c \in Calls |-> 0]
  /\ retryFails = [c \in Calls |-> 0]
  /\ lastRaw = [c \in Calls |-> NoRaw]
  /\ lastDelay = [c \in Calls |-> NoDelay]
  /\ outcomes = [c \in Calls |-> <<>>]
  /\ closePc = [k \in Closers |-> "idle"]
  /\ posts = [c \in Calls |-> 0]
  /\ lastReq = [c \in Calls |-> NoReq]
  /\ logs = [c \in Calls |-> <<>>]
  /\ lateStart = {}

\* TransportConfig.__init__, lines 36-39, and line 85
Configured(endpoints) ==
  /\ config \in [endpoint : endpoints, api_key : {"key-1"}, timeout : {30}]
  /\ _ingest_url = config.endpoint \o "/v1/ingest"

Endpoints == {"https://logs.example", "http://localhost:3000"}

NoArg == [status |-> 0, body |-> InvalidBody, attempt |-> 0, n |-> 0]
NoRes == [message |-> "", out |-> Propagated(""), delay |-> NoDelay]

\* One send call with every kind of attempt result, cancellation and close.
SoloCalls == {1}

Init ==
  /\ Constructed((-1)..MaxRetries)
  /\ Configured(Endpoints)
  /\ fpc = "none"
  /\ arg = NoArg
  /\ res = NoRes

Next ==
  \/ \E c \in SoloCalls : SendStart(c)
  \/ \E c \in SoloCalls : PostCompletes(c)
  \/ \E c \in SoloCalls : SleepCompletes(c)
  \/ \E c \in SoloCalls : Cancel(c)
  \/ \E k \in Closers : CloseStart(k)
  \/ \E k \in Closers : CloseFinish(k)

Spec == Init /\ [][Next]_vars

\* Concurrent send calls on one transport, with one attempt result of each
\* class: retryable, not retryable, success.
ConcRaws ==
  {RawException("RequestError", Detail), RawResponse(503, InvalidBody),
   RawResponse(401, InvalidBody), RawResponse(404, InvalidBody),
   RawResponse(200, IngestBody(10, 0))}

ConcPostCompletes(c) == PostCompletesIn(c, ConcRaws, {0})

ConcSendStart(c) == SendStartIn(c, {<<"e1", "e2">>})

InitConc ==
  /\ Constructed((-1)..ConcMaxRetries)
  /\ Configured({"https://logs.example"})
  /\ fpc = "none"
  /\ arg = NoArg
  /\ res = NoRes

\* the close calls made while send calls run concurrently
ConcClosers == {k \in Closers : k <= ConcCloses}

NextConc ==
  \/ \E c \in Calls : ConcSendStart(c)
  \/ \E c \in Calls : ConcPostCompletes(c)
  \/ \E c \in Calls : SleepCompletes(c)
  \/ \E c \in Calls : Cancel(c)
  \/ \E k \in ConcClosers : CloseStart(k)
  \/ \E k \in ConcClosers : CloseFinish(k)

SpecConc == InitConc /\ [][NextConc]_vars

\* One send call whose requests and backoff sleeps each complete in the end:
\* client.post returns or raises within the timeout and asyncio.sleep ends.
InitLive ==
  /\ Constructed((-1)..MaxRetries)
  /\ Configured({"https://logs.example"})
  /\ fpc = "none"
  /\ arg = NoArg
  /\ res = NoRes

NextLive ==
  \/ \E c \in SoloCalls : ConcSendStart(c)
  \/ \E c \in SoloCalls : PostCompletes(c)
  \/ \E c \in SoloCalls : SleepCompletes(c)
  \/ \E c \in SoloCalls : Cancel(c)
  \/ \E k \in Closers : CloseStart(k)
  \/ \E k \in Closers : CloseFinish(k)

SpecLive ==
  /\ InitLive /\ [][NextLive]_vars
  /\ \A c \in SoloCalls : WF_vars(PostCompletes(c)) /\ WF_vars(SleepCompletes(c))

\* _do_request applied to one response: every status with every body.
StatusCodes == 100..MaxStatus

InitClassify ==
  /\ Constructed({3})
  /\ Configured({"https://logs.example"})
  /\ fpc = "ready"
  /\ arg \in [status : StatusCodes, body : Bodies, attempt : {0}, n : {0}]
  /\ res = NoRes

Classify ==
  /\ fpc = "ready"
  /\ fpc' = "applied"
  /\ res' = [message |-> IF is_success(arg.status) THEN ""
                         ELSE _try_parse_error(arg.status, arg.body),
             out |-> _do_request(RawResponse(arg.status, arg.body)),
             delay |-> NoDelay]
  /\ UNCHANGED <<max_retries, config, _ingest_url, clientVars, sendVars, arg>>

NextClassify == Classify

SpecClassify == InitClassify /\ [][NextClassify]_vars

\* _delay applied to one attempt index and one draw of random.random().
InitDelay ==
  /\ Constructed({3})
  /\ Configured({"https://logs.example"})
  /\ fpc = "ready"
  /\ arg \in [status : {0}, body : {InvalidBody}, attempt : 0..MaxAttempt,
              n : 0..(RandSteps - 1)]
  /\ res = NoRes

Delay ==
  /\ fpc = "ready"
  /\ fpc' = "applied"
  /\ res' = [message |-> "", out |-> Propagated(""),
             delay |-> _delay(arg.attempt, DefaultBaseDelay, arg.n)]
  /\ UNCHANGED <<max_retries, config, _ingest_url, clientVars, sendVars, arg>>

NextDelay == Delay

SpecDelay == InitDelay /\ [][NextDelay]_vars

(* ------------------------------ claims --------------------------------- *)
Done(c) == pc[c] = "done"
Out(c) == outcomes[c][1]
WasCancelled(c) ==
  Done(c) /\ Out(c).kind = "exception" /\ Out(c).exc = "CancelledError"
\* what _do_request made of the latest attempt of call c
LastResult(c) == _do_request(lastRaw[c])

\* C1: with max_retries >= 0, a send call all of whose attempts failed with a
\* retryable error (and that was not cancelled) has made max_retries + 1
\* attempts and max_retries sleeps, and raised the error of its last attempt.
C1_ExhaustRaisesLast ==
  \A c \in Calls :
    (Done(c) /\ max_retries >= 0 /\ requests[c] > 0
       /\ retryFails[c] = requests[c] /\ ~WasCancelled(c))
    => /\ requests[c] = max_retries + 1
       /\ sleeps[c] = max_retries
       /\ outcomes[c] = <<Raised(LastResult(c).error)>>

C1_Witness ==
  \E c \in Calls :
    /\ Done(c) /\ max_retries >= 2 /\ retryFails[c] = max_retries + 1
    /\ requests[c] = retryFails[c] /\ sleeps[c] = max_retries
    /\ Out(c).kind = "LogwellError" /\ Out(c).error.code = "RATE_LIMITED"

\* C2: once an attempt of a send call has failed with a non-retryable error,
\* the call has ended raising exactly that error: no attempt and no sleep
\* follows that failure, whatever number of attempts remained.
C2_NonRetryableRaisesAtOnce ==
  \A c \in Calls :
    (lastRaw[c] # NoRaw /\ LastResult(c).kind = "LogwellError"
       /\ ~LastResult(c).error.retryable)
    => /\ Done(c)
       /\ outcomes[c] = <<Raised(LastResult(c).error)>>
       /\ requests[c] = retryFails[c] + 1
       /\ sleeps[c] = retryFails[c]

C2_Witness ==
  \E c \in Calls :
    /\ Done(c) /\ Out(c).kind = "LogwellError" /\ ~Out(c).error.retryable
    /\ retryFails[c] >= 1 /\ requests[c] < max_retries + 1

\* C3: a send call that returns a value returns the body of its last attempt
\* unchanged, after k retryable failures, k + 1 attempts and k sleeps, with
\* k <= max_retries; and a successful attempt is never followed by another.
C3_SuccessAfterRetries ==
  \A c \in Calls :
    /\ (Done(c) /\ Out(c).kind = "returned")
       => /\ outcomes[c] = <<Returned(lastRaw[c].body)>>
          /\ requests[c] = retryFails[c] + 1
          /\ sleeps[c] = retryFails[c]
          /\ retryFails[c] <= max_retries
    /\ (lastRaw[c] # NoRaw /\ LastResult(c).kind = "returned")
       => (Done(c) /\ Out(c).kind = "returned")

C3_Witness ==
  \E c \in Calls :
    /\ max_retries = 3 /\ Done(c) /\ Out(c) = Returned(IngestBody(10, 0))
    /\ retryFails[c] = 3 /\ requests[c] = 4 /\ sleeps[c] = 3

\* C4: every send call that has ended, none of whose attempts was cancelled or
\* issued on a closed client, ended with exactly one outcome, which is a
\* returned response or a raised LogwellError.
C4_OneClassifiedOutcome ==
  \A c \in Calls :
    (Done(c) /\ Len(outcomes[c]) > 0
       /\ Out(c).exc \notin {"CancelledError", "RuntimeError"})
    => /\ Len(outcomes[c]) = 1
       /\ Out(c).kind \in {"returned", "LogwellError"}

\* C5: for every non-2xx status the error made from the response carries
\* the status and has the kind and the retryable flag of the table.
C5_StatusTable ==
  (fpc = "applied" /\ ~(200 <= arg.status /\ arg.status <= 299))
  => /\ res.out.kind = "LogwellError"
     /\ res.out.error.status_code = arg.status
     /\ <<res.out.error.code, res.out.error.retryable>> =
          CASE arg.status = 401 -> <<"UNAUTHORIZED", FALSE>>
            [] arg.status = 400 -> <<"VALIDATION_ERROR", FALSE>>
            [] arg.status = 429 -> <<"RATE_LIMITED", TRUE>>
            [] arg.status \notin {400, 401, 429} /\ arg.status >= 500
                 -> <<"SERVER_ERROR", TRUE>>
            [] OTHER -> <<"SERVER_ERROR", FALSE>>

C5_Witness ==
  /\ fpc = "applied" /\ arg.status = 403
  /\ res.out.kind = "LogwellError" /\ res.out.error.code = "SERVER_ERROR"
  /\ ~res.out.error.retryable /\ res.out.error.status_code = 403

\* C6: an attempt whose post raised a timeout or a request error leaves a
\* NETWORK_ERROR with no status and retryable as the call's last error, and a
\* LogwellError raised by send has no status exactly when it is a
\* NETWORK_ERROR.
C6_NetworkErrorNoStatus ==
  \A c \in Calls :
    /\ (lastRaw[c].t = "exception"
          /\ lastRaw[c].exc \in {"TimeoutException", "RequestError"})
       => /\ last_error[c].code = "NETWORK_ERROR"
          /\ last_error[c].status_code = None
          /\ last_error[c].retryable
    /\ (Done(c) /\ Out(c).kind = "LogwellError")
       => /\ (Out(c).error.status_code = None) <=> (Out(c).error.code = "NETWORK_ERROR")
          /\ (lastRaw[c].t = "response")
               => Out(c).error.status_code = lastRaw[c].status

C6_Witness ==
  \E c \in Calls :
    /\ Done(c) /\ Out(c).kind = "LogwellError"
    /\ lastRaw[c] = RawException("TimeoutException", Detail)
    /\ Out(c).error.code = "NETWORK_ERROR" /\ Out(c).error.status_code = None

\* C7 as stated: the message of a non-2xx response is the message field if
\* it has a value, else the error field if it has a value, else "HTTP
\* {status}", also for a JSON object with neither.
C7_GenericFallbackEverywhere ==
  (fpc = "applied" /\ ~(200 <= arg.status /\ arg.status <= 299))
  => res.message =
       IF arg.body.parse = "object" /\ arg.body.message.t = "str"
            /\ arg.body.message.s # ""
         THEN arg.body.message.s
       ELSE IF arg.body.parse = "object" /\ arg.body.error.t = "str"
            /\ arg.body.error.s # ""
         THEN arg.body.error.s
       ELSE "HTTP " \o ToString(arg.status)

\* C7 amended: the message is the message field if it is a non-empty string,
\* else the error field if it is a non-empty string, else "Unknown error"
\* when the body is a JSON object, and "HTTP {status}" only when the body is
\* not a JSON object (not JSON at all, or another JSON value).
C7_MessageExtraction ==
  (fpc = "applied" /\ ~(200 <= arg.status /\ arg.status <= 299))
  => LET b == arg.body
         hasMessage == b.message.t = "str" /\ b.message.s # ""
         hasError == b.error.t = "str" /\ b.error.s # ""
     IN /\ (b.parse # "object") => res.message = "HTTP " \o ToString(arg.status)
        /\ (b.parse = "object" /\ hasMessage) => res.message = b.message.s
        /\ (b.parse = "object" /\ ~hasMessage /\ hasError)
             => res.message = b.error.s
        /\ (b.parse = "object" /\ ~hasMessage /\ ~hasError)
             => res.message = "Unknown error"

C7_Witness ==
  /\ fpc = "applied" /\ arg.status = 401
  /\ arg.body = ObjBody(Absent, Absent) /\ res.message = "Unknown error"
  /\ res.out.error.message = "Unauthorized: Unknown error"

\* C8: for every attempt >= 0 with base 100 ms the delay is capped + jitter
\* with capped = min(base * 2^attempt, 10 s) and 0 <= jitter <= 0.3 * capped:
\* it is positive, at most 13 s, and in [10 s, 13 s] from attempt 7 on.
C8_DelayBounds ==
  (fpc = "applied")
  => LET d == res.delay
         raw == 100000 * (2 ^ arg.attempt)
     IN /\ d.total = d.capped + d.jitter
        /\ (raw <= 10000000 => d.capped = raw)
        /\ (raw >= 10000000 => d.capped = 10000000)
        /\ 0 <= d.jitter /\ 10 * d.jitter <= 3 * d.capped
        /\ d.capped <= d.total /\ 10 * d.total <= 13 * d.capped
        /\ d.total > 0 /\ d.total <= 13000000
        /\ (raw >= 10000000) <=> (arg.attempt >= 7)
        /\ (arg.attempt >= 7) => (10000000 <= d.total /\ d.total <= 13000000)

C8_Witness ==
  /\ fpc = "applied" /\ arg.attempt >= 7 /\ arg.n > 0
  /\ res.delay.capped = 10000000 /\ res.delay.total > 10000000

\* C9: a step that cancels a call suspended in client.post or in the backoff
\* sleep ends the call with CancelledError as its only outcome, and from then
\* on the call makes no attempt and no sleep and its outcome stays.
C9_CancelEndsCall ==
  [][\A c \in Calls :
       /\ Cancel(c)
          => /\ pc'[c] = "done"
             /\ outcomes'[c] = <<Propagated("CancelledError")>>
             /\ requests'[c] = requests[c] /\ sleeps'[c] = sleeps[c]
       /\ WasCancelled(c)
          => /\ pc'[c] = "done" /\ outcomes'[c] = outcomes[c]
             /\ requests'[c] = requests[c] /\ sleeps'[c] = sleeps[c]]_vars

C9_Witness ==
  \E c \in Calls :
    /\ WasCancelled(c) /\ sleeps[c] >= 1 /\ requests[c] < max_retries + 1
    /\ Len(outcomes[c]) = 1

\* C10: with send calls interleaved on one transport, each call counts its
\* own attempts (at most max_retries + 1), and its outcome, attempts and
\* sleeps are those its own attempt results give.
C10_CallsIndependent ==
  \A c \in Calls :
    /\ requests[c] <= (IF max_retries >= 0 THEN max_retries + 1 ELSE 0)
    /\ attempt[c] = (IF requests[c] = 0 THEN 0 ELSE requests[c] - 1)
    /\ sleeps[c] <= retryFails[c] /\ retryFails[c] <= requests[c]
    /\ (pc[c] = "sleep") => last_error[c] = LastResult(c).error
    /\ (Done(c) /\ lastRaw[c] # NoRaw /\ ~WasCancelled(c)
          /\ Out(c).exc # "RuntimeError")
       => /\ requests[c] = (IF LastResult(c).kind = "LogwellError"
                                 /\ LastResult(c).error.retryable
                              THEN max_retries + 1 ELSE retryFails[c] + 1)
          /\ sleeps[c] = requests[c] - 1
          /\ outcomes[c] = <<(IF LastResult(c).kind = "LogwellError"
                                THEN Raised(LastResult(c).error)
                                ELSE LastResult(c))>>

C10_Witness ==
  \E c, d \in Calls :
    /\ c # d /\ pc[c] = "sleep" /\ pc[d] = "post"
    /\ attempt[c] = 0 /\ attempt[d] = 2 /\ requests[c] = 1 /\ requests[d] = 3

\* C11: no client exists until the first attempt of a send; send calls
\* started while no close was called share one client; the transport
\* references the newest client only; and a step creates a client only when
\* the transport holds none, creating exactly one open client and holding it.
C11_LazySharedClient ==
  /\ []( /\ (\A c \in Calls : requests[c] = 0) => (created = 0 /\ client = None)
         /\ (\A k \in Closers : closePc[k] = "idle")
              => /\ created <= 1
                 /\ \A c \in Calls : requests[c] > 0
                       => (created = 1 /\ client = 1 /\ reqClient[c] = 1)
         /\ (client # None) => client = created )
  /\ [][(created' # created)
          => /\ client = None
             /\ created' = created + 1
             /\ client' = created'
             /\ clientOpen'[created']]_vars

C11_Witness ==
  \E c, d \in Calls :
    /\ c # d /\ pc[c] = "post" /\ pc[d] = "post"
    /\ created = 1 /\ client = 1 /\ reqClient[c] = 1 /\ reqClient[d] = 1
    /\ clientOpen[1]

C13_CloseReleasesAll ==
  /\ ((\E k \in Closers : closePc[k] = "done") /\ lateStart = {})
     => /\ client = None
        /\ \A i \in 1..created : ~clientOpen[i]
  /\ \A c \in Calls :
       ~(Len(outcomes[c]) > 0 /\ Out(c).exc = "RuntimeError")

\* C14: the attempts of one send call are sequential and each calls
\* client.post once: while a post is pending all earlier attempts have failed
\* retryably, otherwise no post is pending; and an attempt starts only at the
\* start of the call or when the backoff sleep that followed a retryable
\* failure of the previous attempt ends.
C14_SequentialAttempts ==
  /\ [](\A c \in Calls :
          /\ posts[c] = requests[c]
          /\ (pc[c] = "post") => posts[c] = retryFails[c] + 1
          /\ (pc[c] = "sleep") => posts[c] = retryFails[c]
          /\ (pc[c] = "idle") => posts[c] = 0)
  /\ [][\A c \in Calls :
          (requests'[c] # requests[c])
          => /\ requests'[c] = requests[c] + 1
             /\ posts'[c] = posts[c] + 1
             /\ \/ pc[c] = "idle" /\ requests[c] = 0
                \/ /\ pc[c] = "sleep"
                   /\ LastResult(c).kind = "LogwellError"
                   /\ LastResult(c).error.retryable
                   /\ sleeps[c] = requests[c]]_vars

C14_Witness ==
  \E c \in Calls :
    /\ pc[c] = "post" /\ posts[c] = 3 /\ requests[c] = 3
    /\ retryFails[c] = 2 /\ sleeps[c] = 2

\* C15: with max_retries >= 0 a send call has made at most max_retries + 1
\* attempts and at most max_retries sleeps, and its sleeps number its
\* attempts or one less; the i-th sleep (i from 0) has the capped delay
\* min(100 ms * 2^i, 10 s) and lasts between 1 and 1.3 times that; and the
\* capped delay never decreases from one sleep of the call to the next.
C15_CountersAndSchedule ==
  /\ [](max_retries >= 0
         => \A c \in Calls :
              /\ requests[c] <= max_retries + 1
              /\ sleeps[c] <= max_retries
              /\ sleeps[c] \in {requests[c], requests[c] - 1}
              /\ (sleeps[c] >= 1)
                   => /\ lastDelay[c].capped =
                           (IF 100000 * (2 ^ (sleeps[c] - 1)) <= 10000000
                              THEN 100000 * (2 ^ (sleeps[c] - 1))
                              ELSE 10000000)
                      /\ lastDelay[c].capped <= lastDelay[c].total
                      /\ 10 * lastDelay[c].total <= 13 * lastDelay[c].capped)
  /\ [][\A c \in Calls :
          /\ lastDelay'[c].capped >= lastDelay[c].capped
          /\ (sleeps'[c] # sleeps[c])
               => /\ sleeps'[c] = sleeps[c] + 1
                  /\ sleeps[c] = attempt[c]
                  /\ pc'[c] = "sleep"]_vars

C15_Witness ==
  \E c \in Calls :
    /\ pc[c] = "sleep" /\ sleeps[c] = 3 /\ requests[c] = 3
    /\ lastDelay[c].capped = 400000 /\ lastDelay[c].total > 400000

\* C16: with max_retries >= 0 a started send call has made at least one
\* attempt and a LogwellError it raises is the one its latest attempt
\* produced, never the placeholder; the placeholder is raised exactly when
\* max_retries < 0, and then the call made no attempt and no sleep.
C16_PlaceholderOnlyWhenNegative ==
  \A c \in Calls :
    /\ (max_retries >= 0 /\ pc[c] # "idle") => requests[c] >= 1
    /\ (Done(c) /\ Out(c).kind = "LogwellError")
       => /\ (Out(c).error = Placeholder) <=> (max_retries < 0)
          /\ (max_retries >= 0)
               => (lastRaw[c] # NoRaw /\ Out(c).error = LastResult(c).error)
    /\ (max_retries < 0 /\ pc[c] # "idle")
       => /\ outcomes[c] = <<Raised(Placeholder)>> /\ Done(c)
          /\ requests[c] = 0 /\ sleeps[c] = 0 /\ posts[c] = 0

C16_Witness ==
  \E c \in Calls :
    /\ max_retries = 0 /\ Done(c) /\ requests[c] = 1 /\ sleeps[c] = 0
    /\ Out(c).kind = "LogwellError" /\ Out(c).error.code = "RATE_LIMITED"
    /\ Out(c).error # Placeholder

\* the latest attempt of call c raised a LogwellError and send has acted on
\* it: the call sleeps, or it has ended raising a LogwellError
ActedOnFailure(c) ==
  /\ lastRaw[c] # NoRaw /\ LastResult(c).kind = "LogwellError"
  /\ \/ pc[c] = "sleep"
     \/ Done(c) /\ Out(c).kind = "LogwellError"

\* C17: two send calls with the same max_retries that have made the same
\* number of attempts (all but the latest failed retryably) and whose latest
\* failures agree on the retryable flag are at the same point, with the same
\* number of sleeps, whatever the kind, status or message of the failures.
C17_RetryByFlagOnly ==
  \A c, d \in Calls :
    (ActedOnFailure(c) /\ ActedOnFailure(d) /\ requests[c] = requests[d]
       /\ LastResult(c).error.retryable = LastResult(d).error.retryable)
    => /\ pc[c] = pc[d]
       /\ sleeps[c] = sleeps[d]
       /\ retryFails[c] = retryFails[d]

C17_Witness ==
  \E c, d \in Calls :
    /\ ActedOnFailure(c) /\ ActedOnFailure(d)
    /\ last_error[c].code = "NETWORK_ERROR" /\ last_error[d].code = "SERVER_ERROR"
    /\ last_error[c].status_code # last_error[d].status_code
    /\ last_error[c].retryable /\ last_error[d].retryable
    /\ requests[c] = 2 /\ requests[d] = 2 /\ pc[c] = "sleep" /\ pc[d] = "sleep"

\* C18: the request of every attempt of a send call carries the caller's
\* whole batch in order, to {endpoint}/v1/ingest, with the configured key;
\* a started call with max_retries >= 0 has made a request also for an empty
\* batch; a later attempt repeats the request of the one before; and no step
\* changes the configuration or the batch of a started call.
C18_WholeBatchEveryAttempt ==
  /\ [](\A c \in Calls :
          /\ (posts[c] >= 1)
               => lastReq[c] = [url |-> config.endpoint \o "/v1/ingest",
                                auth |-> "Bearer " \o config.api_key,
                                json |-> logs[c]]
          /\ (max_retries >= 0 /\ pc[c] # "idle") => posts[c] >= 1)
  /\ [][/\ config' = config /\ max_retries' = max_retries
         /\ _ingest_url' = _ingest_url
         /\ \A c \in Calls :
              /\ (pc[c] # "idle") => logs'[c] = logs[c]
              /\ (posts[c] >= 1) => lastReq'[c] = lastReq[c]]_vars

C18_Witness ==
  \E c \in Calls :
    /\ logs[c] = <<>> /\ posts[c] = 2 /\ pc[c] = "post"
    /\ lastReq[c].json = <<>> /\ lastReq[c].url = "http://localhost:3000/v1/ingest"

\* C19: once an attempt of a send call has failed with something that is not
\* a LogwellError (a 2xx body that is not JSON, a cancellation), the call has
\* ended raising exactly that exception in the same step: no attempt and no
\* sleep follows it and no value is returned in its place.
C19_UnclassifiedPropagates ==
  \A c \in Calls :
    (lastRaw[c] # NoRaw /\ LastResult(c).kind = "exception")
    => /\ Done(c)
       /\ outcomes[c] = <<Propagated(LastResult(c).exc)>>
       /\ requests[c] = retryFails[c] + 1
       /\ sleeps[c] = retryFails[c]

C19_Witness ==
  \E c \in Calls :
    /\ Done(c) /\ lastRaw[c] = RawResponse(200, InvalidBody)
    /\ Out(c) = Propagated("JSONDecodeError")
    /\ retryFails[c] = 1 /\ requests[c] = 2 /\ max_retries >= 2

\* C20: a send call makes at most max_retries + 1 attempts and, when each
\* request and each backoff sleep completes in the end, every started call
\* ends, also when every attempt fails retryably.
C20_SendTerminates ==
  /\ [](\A c \in Calls :
          requests[c] <= (IF max_retries >= 0 THEN max_retries + 1 ELSE 0))
  /\ \A c \in Calls : (pc[c] # "idle") ~> Done(c)

C20_Witness ==
  \E c \in Calls :
    /\ Done(c) /\ max_retries >= 3 /\ requests[c] = max_retries + 1
    /\ retryFails[c] = max_retries + 1 /\ sleeps[c] = max_retries
    /\ Out(c).kind = "LogwellError"
====
